---- MODULE Spec2Model ----
(***************************************************************************)
(* Verification model of the PacificPNT pipeline scripts:                  *)
(*   src/00_utils/gnss_parser.py            (header normalisation)         *)
(*   src/01_baseline_phase1/run_baseline.py (baseline analysis, runs/latest)*)
(*   src/01_baseline_phase1/week3_dop_sim.py (DOP simulator)               *)
(*   src/02_proposed_phase2/calc_phase2_risk.py (Phase 2 risk)             *)
(*   src/02_proposed_phase2/run_phase2_evaluation.py (merge + evaluation)  *)
(*   qgis_scripts/01_vector_to_raster.py    (stage 01 preprocessing)       *)
(* Each script is a sequential program; each gets its own specification    *)
(* over its own variables, the other variables staying at their idle value.*)
(***************************************************************************)
EXTENDS Integers, Sequences, FiniteSets, TLC

VARIABLES
    \* ---- run_baseline.py: the output_dir tree and the last run's lists
    clock,          \* wall clock in seconds, what datetime.now() is formatted from
    nruns,          \* number of runs of run_baseline_analysis so far
    run_dirs,       \* output_dir/runs/<timestamp>/ : timestamp -> directory
    latest,         \* output_dir/latest/           : directory
    qc_fails,       \* the qc_fails list of the last run
    site_metrics,   \* the site_metrics list of the last run
    logs_seen,      \* the log files the last run iterated over (its input)
    qc_params,      \* <<qc_min_epochs, qc_min_duration>> of the last run
    returned,       \* which return of run_baseline_analysis the last run took
    \* ---- gnss_parser.py and week3_dop_sim.py on one log file
    src_lines,      \* the lines of the input file, each a sequence of CSV fields
    no_raw_header,  \* args.no_raw_header
    parser_result,  \* "none", "written" (dst.write_text ran) or "raised"
    out_lines,      \* the lines written to out_dir/<name>
    sim_done,       \* parse_and_simulate has run on the normalised file
    header_map,     \* parse_and_simulate's header_map: column name -> index
    sim_rows,       \* the (t, az, el) appended to epochs, in order
    dop_result,     \* what parse_and_simulate returned
    \* ---- 01_vector_to_raster.py and calc_phase2_risk.py
    raw_files,      \* the files present in data/raw
    processed_files,\* the files present in data/processed
    stage01_result, \* "none", "done" or "raised" (run_rasterization)
    announced_skip, \* stage 01 printed that the overhead judgement is skipped
    sites_in,       \* the sites of site_definitions.csv with their surroundings
    risk_result,    \* "none", "saved" or "raised" (calculate_phase2_risk)
    sites_risk,     \* the rows of output/phase2_risk/sites_risk.csv
    \* ---- run_phase2_evaluation.py
    plan_a,         \* output/baseline_analysis/latest/final_dataset.csv
    plan_b,         \* data/processed/final_dataset.csv (input of Plan B, and output)
    risk_csv,       \* output/phase2_risk/sites_risk.csv
    dop_csv,        \* output/baseline_analysis/week3_dop_results.csv
    eval_runs,      \* runs of the script so far
    eval_result,    \* how the last run ended
    results,        \* the results list of the last run
    skipped,        \* the targets the last run skipped as 'column not found'
    \* ---- calculate_safety_metrics on its own
    sm_df,          \* the frame it is given
    sm_done,        \* it has been applied
    sm_res,         \* what it returned
    \* ---- the two HDOP implementations on the same Status rows
    hd_status,      \* the Status rows [t, el, az, used] of one log
    hd_week3,       \* week3_dop_sim: per cut, the epoch values and the median
    hd_base,        \* run_baseline: per cut, the epoch values and the median
    \* ---- risk_max_score on its own
    rm_obstacles,   \* the obstacles around one site point, [dist, h] each
    rm_done,        \* it has been applied
    rm_score,       \* what it returned, in thousandths
    \* ---- the quantile functions of stages 03 and 05 on the same raster values
    qt_values,      \* the sorted pixel values
    qt_p,           \* p, in hundredths
    qt_done,        \* both functions have been applied
    qt_03,          \* quantile(p) of 03_determine_thresholds.py
    qt_05           \* quantile(p) of 05_visualize_selection.py

baseVars == <<clock, nruns, run_dirs, latest, qc_fails, site_metrics, logs_seen,
              qc_params, returned>>

parserVars == <<src_lines, no_raw_header, parser_result, out_lines, sim_done,
                header_map, sim_rows, dop_result>>

riskVars == <<raw_files, processed_files, stage01_result, announced_skip, sites_in,
              risk_result, sites_risk>>

evalVars == <<plan_a, plan_b, risk_csv, dop_csv, eval_runs, eval_result, results,
              skipped>>

safetyVars == <<sm_df, sm_done, sm_res>>

hdopVars == <<hd_status, hd_week3, hd_base>>

scoreVars == <<rm_obstacles, rm_done, rm_score>>

quantVars == <<qt_values, qt_p, qt_done, qt_03, qt_05>>

vars == <<baseVars, parserVars, riskVars, evalVars, safetyVars, hdopVars, scoreVars,
          quantVars>>

\* the variables of the other programs, which a program leaves alone
notBase == <<parserVars, riskVars, evalVars, safetyVars, hdopVars,
             scoreVars, quantVars>>
notParser == <<baseVars, riskVars, evalVars, safetyVars, hdopVars,
             scoreVars, quantVars>>
notRisk == <<baseVars, parserVars, evalVars, safetyVars, hdopVars,
             scoreVars, quantVars>>
notEval == <<baseVars, parserVars, riskVars, safetyVars, hdopVars,
             scoreVars, quantVars>>
notSafety == <<baseVars, parserVars, riskVars, evalVars, hdopVars,
             scoreVars, quantVars>>
notHdop == <<baseVars, parserVars, riskVars, evalVars, safetyVars,
             scoreVars, quantVars>>
notScore == <<baseVars, parserVars, riskVars, evalVars, safetyVars, hdopVars, quantVars>>
notQuant == <<baseVars, parserVars, riskVars, evalVars, safetyVars, hdopVars, scoreVars>>

\* float NaN / a value pandas could not coerce; every real quantity of the
\* model (times, elevations, HDOP values) is >= 0
NaN == 0 - 1

(***************************************************************************)
(* Bounds                                                                   *)
(***************************************************************************)
MaxRuns == 3        \* runs of run_baseline_analysis into one output_dir
MaxClock == 1       \* the wall clock ticks at most this many seconds
MaxLogs == 2        \* log files in log_dir
MaxEvalRuns == 2    \* runs of run_phase2_evaluation.py

(***************************************************************************)
(* Small helpers                                                            *)
(***************************************************************************)
Range(s) == {s[i] : i \in 1..Len(s)}

SeqsUpTo(S, n) == UNION {[1..k -> S] : k \in 0..n}

Contains(s, x) == \E i \in 1..Len(s) : s[i] = x

MinOf(S) == CHOOSE x \in S : \A y \in S : x <= y
MaxOf(S) == CHOOSE x \in S : \A y \in S : x >= y

(***************************************************************************)
(* HDOP: week3_dop_sim.calculate_hdop, run_baseline.calculate_hdop_from_-  *)
(* geometry and the two per-cut median loops.                              *)
(* A Status row is [t, el, az, used]; t = NaN is a blank/uncoercible time. *)
(***************************************************************************)

\* sqrt(Q[0,0] + Q[1,1]) with Q = inv(G^T G), for a geometry of >= 4
\* satellites.  TLC has no reals: the value is abstracted to an integer that
\* depends on the azimuth spread only.  All satellites on one azimuth make the
\* first two columns of G proportional, G^T G is singular (LinAlgError -> NaN);
\* otherwise the value is positive and falls as the spread grows (two
\* azimuths give 60, above run_baseline's val < 50 filter; three give 40).
GeometryDop(sats) ==
    LET azs == {sats[i][1] : i \in 1..Len(sats)}
    IN  IF Cardinality(azs) < 2 THEN NaN ELSE 120 \div Cardinality(azs)

HdopWithThreeSatellites(satellites) ==
    IF Len(satellites) < 3 THEN NaN ELSE GeometryDop(satellites)

\* week3_dop_sim.calculate_hdop(satellites), satellites a list of (az, el)
calculate_hdop(satellites) ==
    IF Len(satellites) < 4 THEN NaN ELSE GeometryDop(satellites)

\* run_baseline.calculate_hdop_from_geometry(az, el); the arrays are passed
\* here zipped, as a list of (az, el)
calculate_hdop_from_geometry(sats) ==
    IF Len(sats) < 4 THEN NaN ELSE GeometryDop(sats)

\* twice np.median(values) of a non-empty list (twice, to stay in the integers)
Median2(values) ==
    LET srt == SortSeq(values, LAMBDA a, b : a < b)
        n   == Len(srt)
    IN  IF n % 2 = 1 THEN 2 * srt[(n + 1) \div 2]
        ELSE srt[n \div 2] + srt[n \div 2 + 1]

\* the (az, el) pairs of the rows of `status` at epoch t with el >= min_el
CutSats(status, t, min_el) ==
    LET idx == SelectSeq([i \in 1..Len(status) |-> i],
                         LAMBDA i : status[i].t = t /\ status[i].el >= min_el)
    IN  [k \in 1..Len(idx) |-> <<status[idx[k]].az, status[idx[k]].el>>]

\* the keys of parse_and_simulate's epochs dict, in insertion order; week3
\* keys an epoch by the raw time string, so a blank time is a key too
RECURSIVE EpochKeys(_, _)
EpochKeys(status, seen) ==
    IF status = <<>> THEN <<>>
    ELSE IF Head(status).t \in seen THEN EpochKeys(Tail(status), seen)
    ELSE <<Head(status).t>> \o EpochKeys(Tail(status), seen \cup {Head(status).t})

\* week3_dop_sim.parse_and_simulate, lines 99-106: hdop_a (min_el = 5) or
\* hdop_b (min_el = 15) of every epoch
Week3EpochHdops(status, min_el) ==
    LET keys == EpochKeys(status, {})
    IN  [k \in 1..Len(keys) |->
            [t |-> keys[k], hdop |-> calculate_hdop(CutSats(status, keys[k], min_el))]]

\* lines 108-109: stats_a or stats_b
Week3Stats(status, min_el) ==
    LET hdops == Week3EpochHdops(status, min_el)
        kept  == SelectSeq(hdops, LAMBDA e : e.hdop # NaN)
    IN  [k \in 1..Len(kept) |-> kept[k].hdop]

Week3Median2(status, min_el) ==
    LET st == Week3Stats(status, min_el)
    IN  IF st # <<>> THEN Median2(st) ELSE NaN

\* run_baseline.run_baseline_analysis, lines 152-157: val of every group of
\* one cut.  groupby('UnixTimeMillis') sorts the keys and drops NaN keys.
BaselineEpochVals(status, min_el) ==
    LET cut   == SelectSeq(status, LAMBDA r : r.el >= min_el)
        tset  == {cut[i].t : i \in 1..Len(cut)} \ {NaN}
        keys  == SortSeq(CHOOSE s \in [1..Cardinality(tset) -> tset] : Range(s) = tset,
                         LAMBDA a, b : a < b)
    IN  [k \in 1..Len(keys) |->
            [t |-> keys[k],
             hdop |-> calculate_hdop_from_geometry(CutSats(status, keys[k], min_el))]]

\* line 158: the hdops list
BaselineHdops(status, min_el) ==
    LET vals == BaselineEpochVals(status, min_el)
        kept == SelectSeq(vals, LAMBDA e : e.hdop # NaN /\ e.hdop < 50)
    IN  [k \in 1..Len(kept) |-> kept[k].hdop]

BaselineMedian2(status, min_el) ==
    LET h == BaselineHdops(status, min_el)
    IN  IF h # <<>> THEN Median2(h) ELSE NaN

(***************************************************************************)
(* pandas.merge(left, right, on = key, how = ...) on small tables.         *)
(* A table is [cols |-> sequence of column names, rows |-> sequence of     *)
(* rows], a row being a sequence of values aligned with cols.              *)
(***************************************************************************)
IndexOf(cols, name) == CHOOSE i \in 1..Len(cols) : cols[i] = name

\* the column names of the merged frame: the key once, the left columns, then
\* the right columns without the key; a non-key name both frames carry gets
\* the suffixes _x (left) and _y (right)
MergeCols(lcols, rcols, key) ==
    LET l == [i \in 1..Len(lcols) |->
                IF lcols[i] # key /\ Contains(rcols, lcols[i])
                THEN lcols[i] \o "_x" ELSE lcols[i]]
        rk == SelectSeq(rcols, LAMBDA c : c # key)
        r == [i \in 1..Len(rk) |->
                IF Contains(lcols, rk[i]) THEN rk[i] \o "_y" ELSE rk[i]]
    IN  l \o r

\* a row of `right` without its key column
DropKey(rcols, row, key) ==
    LET idx == SelectSeq([i \in 1..Len(rcols) |-> i], LAMBDA i : rcols[i] # key)
    IN  [k \in 1..Len(idx) |-> row[idx[k]]]

\* the merged rows one left row gives: one per right row with the same key;
\* under how = "left" a left row without a match is kept, NaN-filled
MergeRow(lrow, lk, right, key, how) ==
    LET rk      == IndexOf(right.cols, key)
        matches == SelectSeq(right.rows, LAMBDA r : r[rk] = lrow[lk])
        width   == Len(right.cols) - 1
    IN  IF matches = <<>>
        THEN (IF how = "left" THEN << lrow \o [i \in 1..width |-> NaN] >> ELSE <<>>)
        ELSE [m \in 1..Len(matches) |-> lrow \o DropKey(right.cols, matches[m], key)]

RECURSIVE MergeRows(_, _, _, _, _)
MergeRows(lrows, lk, right, key, how) ==
    IF lrows = <<>> THEN <<>>
    ELSE MergeRow(Head(lrows), lk, right, key, how)
         \o MergeRows(Tail(lrows), lk, right, key, how)

Merge(left, right, key, how) ==
    [cols |-> MergeCols(left.cols, right.cols, key),
     rows |-> MergeRows(left.rows, IndexOf(left.cols, key), right, key, how)]

(***************************************************************************)
(* run_baseline.py                                                          *)
(***************************************************************************)

\* A log file, as parse_gnss_log sees it:
\*   site           the part of the file name before the first '_'
\*   fix_header     a '# Fix' line is present
\*   status_header  a '# Status' line is present
\*   cols_ok        the data rows have as many fields as their header
\*                  (otherwise pd.DataFrame(..., columns=header) raises)
\*   fix_cols       the columns the '# Fix' header names, among FixCols
\*   status_cols    the columns the '# Status' header names, among StatusCols
\*   fix            UnixTimeMillis of the Fix rows, after pd.to_numeric
\*   status         the Status rows [t, el, az, used], after pd.to_numeric

\* the columns run_baseline_analysis reads from df_fix and from df_status
FixCols == {"UnixTimeMillis", "LatitudeDegrees", "LongitudeDegrees"}
StatusCols == {"UnixTimeMillis", "UsedInFix", "ElevationDegrees", "AzimuthDegrees", "Cn0DbHz"}

\* parse_gnss_log(filepath): (df_fix, df_status, msg), df_fix None on failure
parse_gnss_log(log) ==
    IF ~log.fix_header \/ ~log.status_header
    THEN [ok |-> FALSE, msg |-> "Missing Header", df_fix |-> <<>>, df_status |-> <<>>]
    ELSE IF ~log.cols_ok
    THEN [ok |-> FALSE, msg |-> "Exception", df_fix |-> <<>>, df_status |-> <<>>]
    ELSE [ok |-> TRUE, msg |-> "OK", df_fix |-> log.fix, df_status |-> log.status]

\* lines 126-127: duration in milliseconds (the code divides by 1000.0 and
\* compares with qc_min_duration seconds; the model compares milliseconds)
DurationMs(df_fix) ==
    LET ts == Range(df_fix) \ {NaN}
    IN  IF ts # {} THEN MaxOf(ts) - MinOf(ts) ELSE 0

\* the columns of a site_metrics row, lines 161-169
MetricCols ==
    <<"site_id", "err_p95_m", "err_p50_m", "n_fix", "duration", "used_sat_mean",
      "cn0_mean", "cn0_std", "elev_mean", "used_rate",
      "hdop_cut_a_median", "hdop_cut_b_median">>

QcFail(site_id, kind, arg) ==
    [list |-> "qc_fails", site_id |-> site_id, reason |-> kind, arg |-> arg,
     n_fix |-> 0, duration |-> 0, hdop_cut_a_median |-> NaN, hdop_cut_b_median |-> NaN]

\* an uncaught KeyError: the header lacks a column the loop indexes
Raised(site_id) ==
    [list |-> "raised", site_id |-> site_id, reason |-> "KeyError", arg |-> 0,
     n_fix |-> 0, duration |-> 0, hdop_cut_a_median |-> NaN, hdop_cut_b_median |-> NaN]

\* the body of the for loop, lines 118-170, for one log file: the one row it
\* appends, tagged with the list it is appended to, or the exception that
\* leaves the loop.  qc_min_duration is in seconds.  err_p95_m, cn0_mean, ...
\* are real-valued statistics that no check of this loop reads; the row keeps
\* the fields the model computes.
ProcessLog(log, qc_min_epochs, qc_min_duration) ==
    LET p == parse_gnss_log(log)
        n_fix == Len(p.df_fix)
        duration == DurationMs(p.df_fix)
        df_used == SelectSeq(p.df_status, LAMBDA r : r.used = 1)
        has_az == "AzimuthDegrees" \in log.status_cols
    IN  IF ~p.ok THEN QcFail(log.site, "Parse Error", 0)
        \* line 126: df_fix['UnixTimeMillis']
        ELSE IF "UnixTimeMillis" \notin log.fix_cols THEN Raised(log.site)
        ELSE IF n_fix < qc_min_epochs THEN QcFail(log.site, "Low Epochs", n_fix)
        ELSE IF duration < 1000 * qc_min_duration
        THEN QcFail(log.site, "Short Duration", duration)
        \* line 138: calculate_projected_error, dropna(subset=[Latitude.., Longitude..])
        ELSE IF n_fix > 0 /\ ~({"LatitudeDegrees", "LongitudeDegrees"} \subseteq log.fix_cols)
        THEN Raised(log.site)
        \* line 141: df_status['UsedInFix']
        ELSE IF "UsedInFix" \notin log.status_cols THEN Raised(log.site)
        ELSE IF df_used = <<>> THEN QcFail(log.site, "No Used Satellites", 0)
        \* lines 146, 152, 164: groupby('UnixTimeMillis'), ['ElevationDegrees'], ['Cn0DbHz']
        ELSE IF ~({"UnixTimeMillis", "ElevationDegrees", "Cn0DbHz"} \subseteq log.status_cols)
        THEN Raised(log.site)
        \* line 156: without an AzimuthDegrees column no HDOP value is computed
        ELSE [list |-> "site_metrics", site_id |-> log.site, reason |-> "", arg |-> 0,
              n_fix |-> n_fix, duration |-> duration,
              hdop_cut_a_median |-> IF has_az THEN BaselineMedian2(p.df_status, 5) ELSE NaN,
              hdop_cut_b_median |-> IF has_az THEN BaselineMedian2(p.df_status, 15) ELSE NaN]

\* the rows the loop appends, in file order; an exception ends the loop
LoopRows(log_files, qe, qd) ==
    LET all == [i \in 1..Len(log_files) |-> ProcessLog(log_files[i], qe, qd)]
        bad == {i \in 1..Len(all) : all[i].list = "raised"}
    IN  IF bad = {} THEN all ELSE SubSeq(all, 1, MinOf(bad))

\* ---- the output_dir tree.  A directory maps each file name the script can
\* write to the number of the run that wrote the file's content, 0 = no file.
FileNames == {"qc_fails.csv", "site_metrics_raw.csv", "final_dataset.csv", "roc_auc.txt"}
PlotNames == {"plots/roc_curves.png", "plots/scatter_risk_err.png"}
AllNames == FileNames \cup PlotNames
EmptyDir == [n \in AllNames |-> 0]

WriteFiles(dir, names, run) == [n \in AllNames |-> IF n \in names THEN run ELSE dir[n]]

\* lines 209-210: the features found among the merged frame's columns
PossibleFeatures ==
    <<"risk_proxy_5m", "svf_proxy_5m", "risk_cut5", "hdop_cut_a_median", "hdop_cut_b_median">>

Features(merged_cols) == SelectSeq(PossibleFeatures, LAMBDA f : Contains(merged_cols, f))

\* lines 238-244: copy every file of run_dir, then every file of run_dir/plots
CopyToLatest(latest_dir, run_dir) ==
    [n \in AllNames |-> IF run_dir[n] # 0 THEN run_dir[n] ELSE latest_dir[n]]

\* the run directory after run number `run` has written its files into `dir`
\* (which is what runs/<timestamp> held before), and the return it took
RunDirAfter(dir, rows, site_def, run) ==
    LET fails   == SelectSeq(rows, LAMBDA r : r.list = "qc_fails")
        metrics == SelectSeq(rows, LAMBDA r : r.list = "site_metrics")
        d1 == IF fails # <<>> THEN WriteFiles(dir, {"qc_fails.csv"}, run) ELSE dir
        d2 == WriteFiles(d1, {"site_metrics_raw.csv"}, run)
        d3 == WriteFiles(d2, {"final_dataset.csv"}, run)
        merged_cols == MergeCols(MetricCols, site_def.cols, "site_id")
        d4 == IF Features(merged_cols) # <<>>
              THEN WriteFiles(d3, {"roc_auc.txt"} \cup PlotNames, run)
              ELSE d3
    IN  IF \E i \in 1..Len(rows) : rows[i].list = "raised" THEN [dir |-> dir, ret |-> "raised"]
        ELSE IF metrics = <<>> THEN [dir |-> d1, ret |-> "no_sites"]
        ELSE IF ~site_def.exists THEN [dir |-> d3, ret |-> "no_site_def"]
        ELSE [dir |-> d4, ret |-> "completed"]

\* run_baseline_analysis(log_dir, site_def_file, output_dir, qc_min_epochs,
\* qc_min_duration): one whole call.  The timestamp has one-second resolution.
run_baseline_analysis(log_files, site_def, qe, qd) ==
    LET run  == nruns + 1
        rows == LoopRows(log_files, qe, qd)
        out  == RunDirAfter(run_dirs[clock], rows, site_def, run)
    IN  /\ nruns < MaxRuns
        /\ nruns' = run
        /\ run_dirs' = [run_dirs EXCEPT ![clock] = out.dir]
        \* rmtree(latest_dir); makedirs(latest_dir/plots); the copy on completion
        /\ latest' = IF out.ret = "completed" THEN CopyToLatest(EmptyDir, out.dir)
                     ELSE EmptyDir
        /\ qc_fails' = SelectSeq(rows, LAMBDA r : r.list = "qc_fails")
        /\ site_metrics' = SelectSeq(rows, LAMBDA r : r.list = "site_metrics")
        /\ logs_seen' = log_files
        /\ qc_params' = <<qe, qd>>
        /\ returned' = out.ret
        /\ UNCHANGED clock
        /\ UNCHANGED notBase

\* the wall clock reaches the next second between two runs
Tick ==
    /\ clock < MaxClock
    /\ clock' = clock + 1
    /\ UNCHANGED <<nruns, run_dirs, latest, qc_fails, site_metrics, logs_seen,
                   qc_params, returned>>
    /\ UNCHANGED notBase

\* ---- inputs
UsedRow   == [t |-> 0, el |-> 30, az |-> 0, used |-> 1]
UnusedRow == [t |-> 0, el |-> 30, az |-> 0, used |-> 0]

Sites == {"A01", "A02"}

ParsedLogs ==
    [site : Sites, fix_header : {TRUE}, status_header : {TRUE}, cols_ok : {TRUE},
     fix_cols : {FixCols}, status_cols : {StatusCols},
     fix : {<<>>, <<0>>, <<0, 1000>>, <<NaN, 2000>>},
     status : {<<>>, <<UnusedRow>>, <<UsedRow>>}]

UnparsedLogs ==
    {[site |-> "A01", fix_header |-> h[1], status_header |-> h[2], cols_ok |-> h[3],
      fix_cols |-> FixCols, status_cols |-> StatusCols,
      fix |-> <<0, 1000>>, status |-> <<UsedRow>>] :
        h \in {<<FALSE, TRUE, TRUE>>, <<TRUE, FALSE, TRUE>>, <<TRUE, TRUE, FALSE>>}}

\* logs whose header lacks one of the columns the loop reads
ShortHeaderLogs ==
    {[site |-> "A02", fix_header |-> TRUE, status_header |-> TRUE, cols_ok |-> TRUE,
      fix_cols |-> FixCols \ {c}, status_cols |-> StatusCols,
      fix |-> <<0, 1000>>, status |-> <<UsedRow>>] : c \in FixCols}
    \cup
    {[site |-> "A02", fix_header |-> TRUE, status_header |-> TRUE, cols_ok |-> TRUE,
      fix_cols |-> FixCols, status_cols |-> StatusCols \ {c},
      fix |-> <<0, 1000>>, status |-> <<UsedRow>>] : c \in StatusCols}

LogPool == ParsedLogs \cup UnparsedLogs \cup ShortHeaderLogs

\* the logs of the output-tree specification: one that passes QC, one that fails
TreeLogPool ==
    {l \in LogPool : l.site = "A01" /\ l.fix = <<0, 1000>> /\ l.cols_ok /\ l.fix_header
                     /\ l.fix_cols = FixCols /\ l.status_cols = StatusCols
                     /\ (l.status_header => l.status = <<UsedRow>>)}

SiteDefs ==
    {[exists |-> FALSE, cols |-> <<>>],
     [exists |-> TRUE, cols |-> <<"site_id", "class">>],
     [exists |-> TRUE, cols |-> <<"site_id", "class", "risk_proxy_5m", "svf_proxy_5m">>],
     [exists |-> TRUE, cols |-> <<"site_id", "hdop_cut_a_median", "hdop_cut_b_median">>]}

(***************************************************************************)
(* gnss_parser.py.  A line is the sequence of its CSV fields; the text of  *)
(* the line is the fields joined by ','.                                    *)
(***************************************************************************)
FIX_COLS_17 ==
    <<"Fix", "Provider", "Latitude", "Longitude", "AltMeters", "SpeedMps", "Accuracy",
      "BearingDeg", "UnixTimeMillis", "SpeedAccMps", "BearingAccDeg", "TimeNanos",
      "Col12", "Col13", "Col14", "Col15", "Col16">>

STATUS_COLS_14 ==
    <<"Status", "UnixTimeMillis", "Svid", "ConstellationType", "Col4", "AzimuthDegrees",
      "CarrierFrequencyHz", "Cn0DbHz", "Col8", "ElevationDegrees", "UsedInFix",
      "HasAlmanacData", "HasEphemerisData", "Col13">>

RAW_COLS_36 ==
    <<"Raw", "TimeNanos", "FullBiasNanos", "BiasNanos", "BiasUncertaintyNanos",
      "DriftNanosPerSecond", "DriftUncertaintyNanosPerSecond",
      "HardwareClockDiscontinuityCount", "Svid", "TimeOffsetNanos", "State",
      "ReceivedSvTimeNanos", "ReceivedSvTimeUncertaintyNanos", "Cn0DbHz",
      "PseudorangeRateMetersPerSecond", "PseudorangeRateUncertaintyMetersPerSecond",
      "AccumulatedDeltaRangeState", "AccumulatedDeltaRangeMeters",
      "AccumulatedDeltaRangeUncertaintyMeters", "CarrierFrequencyHz", "CarrierCycles",
      "CarrierPhase", "CarrierPhaseUncertainty", "MultipathIndicator", "SnrInDb",
      "ConstellationType", "AgcDb", "BasebandCn0DbHz", "Col28", "Col29", "Col30",
      "Col31", "Col32", "Col33", "Col34", "Col35">>

RecTypes == <<"Fix", "Status", "Raw">>

HeaderOf(rec_type) ==
    CASE rec_type = "Fix" -> FIX_COLS_17
      [] rec_type = "Status" -> STATUS_COLS_14
      [] rec_type = "Raw" -> RAW_COLS_36

\* ln.startswith(FIX_PREFIX) etc.: the first field is the record type and a
\* ',' follows it
StartsWithPrefix(ln, rec_type) == Len(ln) >= 2 /\ ln[1] = rec_type

count_cols(ln) == Len(ln)

\* the tokens has_header accepts as the second field of a header
HeaderTokens(rec_type) ==
    CASE rec_type = "Fix" ->
            {"Provider", "Latitude", "Longitude", "UnixTimeMillis", "TimeNanos"}
      [] rec_type = "Status" ->
            {"UnixTimeMillis", "TimeNanos", "Svid", "Cn0DbHz", "ElevationDegrees", "UsedInFix"}
      [] rec_type = "Raw" -> {"TimeNanos", "FullBiasNanos", "Svid", "Cn0DbHz"}

\* has_header(lines, rec_type)
has_header(lines, rec_type) ==
    \E i \in 1..Len(lines) : Len(lines[i]) >= 2 /\ lines[i][2] \in HeaderTokens(rec_type)

\* fix_lines[:200] etc.
HeaderScanLimit == 200

FirstN(lines, n) == SubSeq(lines, 1, IF Len(lines) < n THEN Len(lines) ELSE n)

TypeLines(lines, rec_type) == SelectSeq(lines, LAMBDA ln : StartsWithPrefix(ln, rec_type))

\* need_fix_header, need_status_header, need_raw_header (lines 132-134)
NeedHeader(lines, rec_type, no_raw) ==
    /\ (rec_type = "Raw" => ~no_raw)
    /\ TypeLines(lines, rec_type) # <<>>
    /\ ~has_header(FirstN(TypeLines(lines, rec_type), HeaderScanLimit), rec_type)

\* the sanity check, lines 137-150: some needed header does not have the
\* column count of the first line of its type, and main raises RuntimeError
SanityRaises(lines, no_raw) ==
    \E k \in 1..Len(RecTypes) :
        /\ NeedHeader(lines, RecTypes[k], no_raw)
        /\ count_cols(TypeLines(lines, RecTypes[k])[1]) # Len(HeaderOf(RecTypes[k]))

HeadersBeforeIgnoringSeen(ln, seen, need) ==
    LET ins == SelectSeq(RecTypes, LAMBDA ty : ty \in need /\ StartsWithPrefix(ln, ty))
    IN  [k \in 1..Len(ins) |-> HeaderOf(ins[k])]

\* the three `if (not seen_x) and need_x_header and ln.startswith(X_PREFIX)`
\* of one iteration, in the code's order: the headers put before ln
HeadersBefore(ln, seen, need) ==
    LET ins == SelectSeq(RecTypes, LAMBDA ty :
                    ty \notin seen /\ ty \in need /\ StartsWithPrefix(ln, ty))
    IN  [k \in 1..Len(ins) |-> HeaderOf(ins[k])]

RECURSIVE EmitLines(_, _, _)
\* the for loop, lines 157-176: `seen` holds the types whose seen_x is True
EmitLines(lines, seen, need) ==
    IF lines = <<>> THEN <<>>
    ELSE LET ln == Head(lines)
             now == {ty \in Range(RecTypes) : StartsWithPrefix(ln, ty)}
         IN  HeadersBefore(ln, seen, need) \o <<ln>>
             \o EmitLines(Tail(lines), seen \cup now, need)

\* main(), for the one .txt file of in_dir
Normalize ==
    /\ parser_result = "none"
    /\ \E no_raw \in BOOLEAN :
        LET need == {ty \in Range(RecTypes) : NeedHeader(src_lines, ty, no_raw)}
        IN  /\ no_raw_header' = no_raw
            /\ IF SanityRaises(src_lines, no_raw)
               THEN parser_result' = "raised" /\ out_lines' = <<>>
               ELSE parser_result' = "written"
                    /\ out_lines' = EmitLines(src_lines, {}, need)
    /\ UNCHANGED <<src_lines, sim_done, header_map, sim_rows, dop_result>>
    /\ UNCHANGED notParser

(***************************************************************************)
(* week3_dop_sim.parse_and_simulate on the normalised file                  *)
(***************************************************************************)

\* the fields of the model's vocabulary that start with '#'
HashFields == {"# Status", "# Fix", "# Raw", "# Version"}

\* c.strip().replace("#", "").strip()
CleanField(c) ==
    CASE c = "# Status" -> "Status"
      [] c = "# Fix" -> "Fix"
      [] c = "# Raw" -> "Raw"
      [] c = "# Version" -> "Version"
      [] OTHER -> c

\* the fields of the model's vocabulary that contain "Status"
StatusFields == {"# Status", "Status"}

\* row[0].startswith("#") and "Status" in row[0]
IsStatusHeaderRow(row) == row[1] \in HashFields /\ row[1] \in StatusFields

\* float(x) of the numeric strings of the vocabulary; any other string raises
\* ValueError
FloatTable ==
    ("0" :> 0) @@ ("4" :> 4) @@ ("10" :> 10) @@ ("30" :> 30) @@ ("90" :> 90)
    @@ ("180" :> 180) @@ ("1000" :> 1000) @@ ("2000" :> 2000)

IsFloat(x) == x \in DOMAIN FloatTable

\* lines 66-72: header_map after a header row (indices are Python's, 0-based)
HeaderMapAfter(hm, row) ==
    LET clean == [i \in 1..Len(row) |-> CleanField(row[i])]
    IN  IF ~Contains(clean, "Status") THEN hm
        ELSE LET type_idx == IndexOf(clean, "Status") - 1
                 names == {clean[i] : i \in (type_idx + 2)..Len(clean)}
             IN  [c \in names \cup DOMAIN hm |->
                    IF c \in names
                    THEN MaxOf({i \in (type_idx + 2)..Len(clean) : clean[i] = c}) - 1
                    ELSE hm[c]]

NoMap == [c \in {} |-> 0]

\* lines 76-93: the (t, az, el) one data row appends to epochs, if any
DataRowSats(hm, row) ==
    LET need == {"UnixTimeMillis", "ElevationDegrees", "AzimuthDegrees"}
    IN  IF ~(need \subseteq DOMAIN hm) THEN <<>>
        ELSE LET it == hm["UnixTimeMillis"] + 1
                 ie == hm["ElevationDegrees"] + 1
                 ia == hm["AzimuthDegrees"] + 1
             IN  IF it > Len(row) \/ ie > Len(row) \/ ia > Len(row) THEN <<>>
                 ELSE IF ~IsFloat(row[ie]) \/ ~IsFloat(row[ia]) THEN <<>>
                 ELSE << [t |-> row[it], el |-> FloatTable[row[ie]],
                          az |-> FloatTable[row[ia]]] >>

RECURSIVE ReadRows(_, _, _)
\* the reader loop, lines 61-93: the final header_map and the rows appended
ReadRows(rows, hm, acc) ==
    IF rows = <<>> THEN [header_map |-> hm, sats |-> acc]
    ELSE LET row == Head(rows)
         IN  IF row = <<>> THEN ReadRows(Tail(rows), hm, acc)
             ELSE IF IsStatusHeaderRow(row)
             THEN ReadRows(Tail(rows), HeaderMapAfter(hm, row), acc)
             ELSE IF row[1] = "Status"
             THEN ReadRows(Tail(rows), hm, acc \o DataRowSats(hm, row))
             ELSE ReadRows(Tail(rows), hm, acc)

\* parse_and_simulate(filepath) on the file gnss_parser wrote
parse_and_simulate ==
    /\ parser_result = "written"
    /\ ~sim_done
    /\ LET r == ReadRows(out_lines, NoMap, <<>>)
       IN  /\ header_map' = r.header_map
           /\ sim_rows' = r.sats
           /\ dop_result' = [hdop_cut_a_median |-> Week3Median2(r.sats, 5),
                             hdop_cut_b_median |-> Week3Median2(r.sats, 15),
                             valid_epochs |-> Len(EpochKeys(r.sats, {}))]
    /\ sim_done' = TRUE
    /\ UNCHANGED <<src_lines, no_raw_header, parser_result, out_lines>>
    /\ UNCHANGED notParser

\* ---- inputs: the lines a GnssLogger file is made of
StatusData(t, az, el) ==
    <<"Status", t, "1", "1", "", az, "", "30", az, el, "1", "", "", "">>

FixData == <<"Fix", "gps", "35", "139", "10", "0", "4", "", "1000", "0", "", "0",
             "", "", "", "", "">>

RawData(n) == [i \in 1..n |-> IF i = 1 THEN "Raw" ELSE "0"]

\* the header GnssLogger itself writes, commented out
LoggerStatusHeader ==
    <<"# Status", "UnixTimeMillis", "SignalCount", "SignalIndex", "ConstellationType",
      "Svid", "CarrierFrequencyHz", "Cn0DbHz", "AzimuthDegrees", "ElevationDegrees",
      "UsedInFix", "HasAlmanacData", "HasEphemerisData", "BasebandCn0DbHz">>

LinePool ==
    {StatusData("1000", "90", "30"), StatusData("1000", "0", "4"),
     SubSeq(StatusData("2000", "180", "30"), 1, 13),
     STATUS_COLS_14, LoggerStatusHeader,
     FixData, FIX_COLS_17,
     RawData(36), RawData(30),
     <<>>, <<"# Version", "v3">>}

(***************************************************************************)
(* qgis_scripts/01_vector_to_raster.py (stage 01)                           *)
(***************************************************************************)

\* get_or_load_layer(layer_name, file_path) on a project that holds no layer
\* yet: the layer, or None when the file is not there
get_or_load_layer(file_name) == file_name \in raw_files

\* run_rasterization(output_dir, bld_path, brid_path, aoi_path)
run_rasterization ==
    /\ stage01_result = "none"
    /\ LET bld_src  == get_or_load_layer("plateau_bld.gpkg")
           brid_src == get_or_load_layer("plateau_brid.gpkg")
           bld_out  == IF bld_src
                       THEN {"bld_6677.gpkg", "bld_clip.gpkg", "bld_height_3m.tif",
                             "bld_height_5m.tif"}
                       ELSE {}
           brid_out == IF brid_src THEN {"brid_6677.gpkg", "brid_clip.gpkg"} ELSE {}
       IN  IF ~get_or_load_layer("aoi.geojson")
           THEN /\ stage01_result' = "raised"
                /\ UNCHANGED <<processed_files, announced_skip>>
           ELSE /\ stage01_result' = "done"
                /\ processed_files' = processed_files \cup bld_out \cup brid_out
                /\ announced_skip' = ~brid_src
    /\ UNCHANGED <<raw_files, sites_in, risk_result, sites_risk>>
    /\ UNCHANGED notRisk

(***************************************************************************)
(* calc_phase2_risk.py.  Lengths are in decimetres, scores in thousandths. *)
(* An obstacle is seen from one site: [dist, h], dist its distance to the   *)
(* site point, h its height attribute (NaN when the attribute is missing). *)
(***************************************************************************)
SEARCH_RADIUS_DM == 500
CALC_HEIGHT_DM == 15
DEFAULT_HEIGHT_DM == 150
OVERHEAD_BUFFER_DM == 20

\* math.degrees(math.atan2(rel_h, dist)) in thousandths of a degree, for the
\* heights and distances of the model's obstacles
AtanMilliDeg(rel_h, dist) ==
    CASE rel_h = 135 /\ dist = 1   -> 89576
      [] rel_h = 135 /\ dist = 100 -> 53471
      [] rel_h = 135 /\ dist = 500 -> 15110
      [] rel_h = 100 /\ dist = 1   -> 89427
      [] rel_h = 100 /\ dist = 100 -> 45000
      [] rel_h = 100 /\ dist = 500 -> 11310

\* angle_score * dist_score of one obstacle, lines 48-63; 0 when rel_h <= 0
ObjScore(ob) ==
    LET dist  == IF ob.dist < 1 THEN 1 ELSE ob.dist
        h     == IF ob.h # NaN THEN ob.h ELSE DEFAULT_HEIGHT_DM
        rel_h == h - CALC_HEIGHT_DM
    IN  IF rel_h <= 0 THEN 0
        ELSE (AtanMilliDeg(rel_h, dist) * 100) \div (90 * (100 + dist))

RECURSIVE MaxScoreLastWins(_, _)
MaxScoreLastWins(obs, max_score) ==
    IF obs = <<>> THEN max_score
    ELSE MaxScoreLastWins(Tail(obs),
                          IF ObjScore(Head(obs)) > 0 THEN ObjScore(Head(obs))
                          ELSE max_score)

RECURSIVE MaxScore(_, _)
MaxScore(obs, max_score) ==
    IF obs = <<>> THEN max_score
    ELSE MaxScore(Tail(obs),
                  IF ObjScore(Head(obs)) > max_score THEN ObjScore(Head(obs))
                  ELSE max_score)

\* risk_max_score(point, obstacles_gdf, radius_m)
risk_max_score(obstacles, radius) ==
    LET nearby == SelectSeq(obstacles, LAMBDA ob : ob.dist <= radius)
        m      == MaxScore(nearby, 0)
    IN  IF nearby = <<>> THEN 0
        ELSE IF m < 0 THEN 0 ELSE IF m > 1000 THEN 1000 ELSE m

\* overhead_score_binary(point, brid_gdf, buffer_m): (flag, score)
overhead_score_binary(brids, buffer) ==
    IF brids = <<>> THEN <<0, 0>>
    ELSE IF \E i \in 1..Len(brids) : brids[i].dist <= buffer THEN <<1, 1>>
    ELSE <<0, 0>>

\* the result row of one site, lines 130-155
RiskRow(site) ==
    LET risk_all == risk_max_score(site.bldgs \o site.brids, SEARCH_RADIUS_DM)
        risk_h   == risk_max_score(site.bldgs, SEARCH_RADIUS_DM)
        o        == overhead_score_binary(site.brids, OVERHEAD_BUFFER_DM)
    IN  [site_id |-> site.site_id, risk_proxy_5m |-> risk_all,
         svf_proxy_5m |-> 1000 - risk_all, risk_horizon |-> risk_h,
         overhead_flag |-> o[1], overhead_score |-> o[2]]

\* the three input files, in the order the existence check visits them
Phase2InputsMissingIgnoringBridge ==
    \/ "bldg_aoi.gpkg" \notin processed_files
    \/ "site_definitions.csv" \notin raw_files

Phase2InputsMissing ==
    \/ "bldg_aoi.gpkg" \notin processed_files
    \/ "brid_aoi.gpkg" \notin processed_files
    \/ "site_definitions.csv" \notin raw_files

\* calculate_phase2_risk(input_bldg_path, input_brid_path, input_sites_csv,
\* output_dir); the CSV carries the coordinate columns
calculate_phase2_risk ==
    /\ risk_result = "none"
    /\ IF Phase2InputsMissing
       THEN risk_result' = "raised" /\ UNCHANGED sites_risk
       ELSE /\ risk_result' = "saved"
            /\ sites_risk' = [i \in 1..Len(sites_in) |-> RiskRow(sites_in[i])]
    /\ UNCHANGED <<raw_files, processed_files, stage01_result, announced_skip, sites_in>>
    /\ UNCHANGED notRisk

\* ---- inputs
BldgPool == {<<>>, <<[dist |-> 100, h |-> 115]>>, <<[dist |-> 0, h |-> NaN]>>,
             <<[dist |-> 600, h |-> 115], [dist |-> 500, h |-> 15]>>}
BridPool == {<<>>, <<[dist |-> 0, h |-> NaN]>>, <<[dist |-> 100, h |-> NaN]>>}

SitePool == [site_id : {"A11"}, bldgs : BldgPool, brids : BridPool]

RawNames == {"aoi.geojson", "plateau_bld.gpkg", "plateau_brid.gpkg", "site_definitions.csv"}
Phase2Names == {"bldg_aoi.gpkg", "brid_aoi.gpkg"}

RiskNotRun ==
    /\ stage01_result = "none"
    /\ announced_skip = FALSE
    /\ risk_result = "none"
    /\ sites_risk = <<>>

RiskIdle ==
    /\ raw_files = {}
    /\ processed_files = {}
    /\ sites_in = <<>>
    /\ RiskNotRun

(***************************************************************************)
(* run_phase2_evaluation.py                                                 *)
(***************************************************************************)
FOCUS_SITES == <<"A11", "A06">>

ColumnOf(df, name) == [i \in 1..Len(df.rows) |-> df.rows[i][IndexOf(df.cols, name)]]

\* roc_auc_score(y, s) as the fraction num / den: over the (positive,
\* negative) pairs, a pair ranked right counts 2, a tie 1; den = 2 * P * N
AucNum(y, s) ==
    LET pos == {i \in 1..Len(y) : y[i] = 1}
        neg == {i \in 1..Len(y) : y[i] = 0}
        gt  == {pr \in pos \X neg : s[pr[1]] > s[pr[2]]}
        eq  == {pr \in pos \X neg : s[pr[1]] = s[pr[2]]}
    IN  2 * Cardinality(gt) + Cardinality(eq)

AucDen(y) ==
    2 * Cardinality({i \in 1..Len(y) : y[i] = 1}) * Cardinality({i \in 1..Len(y) : y[i] = 0})

\* round(num / den, 3) in thousandths (round half to even)
RoundMilli(num, den) ==
    LET q == (1000 * num) \div den
        r == (1000 * num) % den
    IN  IF 2 * r > den THEN q + 1
        ELSE IF 2 * r = den THEN q + (q % 2)
        ELSE q

NoResult ==
    [ok |-> FALSE, Model |-> "", Score |-> "", AUC |-> 0, Flipped |-> FALSE,
     score_used |-> <<>>, Rank |-> [f \in Range(FOCUS_SITES) |-> 0]]

FlipDecisionAtOrBelowHalf(auc_num, auc_den) == 2 * auc_num <= auc_den

\* `if auc_raw < 0.5`
FlipDecision(auc_num, auc_den) == 2 * auc_num < auc_den

\* calculate_safety_metrics(df, y_col, score_col, model_name): None
\* (ok = FALSE) or the res dict.  AUC is in thousandths; Rank maps a focus
\* site to its 1-based rank, 0 standing for "-"; score_used is temp's
\* _score_used column, kept to show what the ranking sorted on.  dropna
\* drops on y, score and err_p95_m; the model's site_id column holds no NaN.
calculate_safety_metrics(df, y_col, score_col, model_name) ==
    IF ~Contains(df.cols, score_col) THEN NoResult
    ELSE
    LET yi   == IndexOf(df.cols, y_col)
        si   == IndexOf(df.cols, score_col)
        ei   == IndexOf(df.cols, "err_p95_m")
        temp == [cols |-> df.cols,
                 rows |-> SelectSeq(df.rows, LAMBDA r :
                              r[yi] # NaN /\ r[si] # NaN /\ r[ei] # NaN)]
        y    == ColumnOf(temp, y_col)
        sc   == ColumnOf(temp, score_col)
        ids  == ColumnOf(temp, "site_id")
    IN  IF Cardinality(Range(y)) < 2 THEN NoResult
        ELSE
        LET num     == AucNum(y, sc)
            den     == AucDen(y)
            flipped == FlipDecision(num, den)
            s_used  == [i \in 1..Len(sc) |-> IF flipped THEN 0 - sc[i] ELSE sc[i]]
            used    == IF flipped THEN den - num ELSE num
            \* sort_values('_score_used', ascending=False), ties in row order
            order   == SortSeq([i \in 1..Len(sc) |-> i],
                               LAMBDA a, b : s_used[a] > s_used[b]
                                             \/ (s_used[a] = s_used[b] /\ a < b))
            rank(site) == IF \E k \in 1..Len(order) : ids[order[k]] = site
                          THEN MinOf({k \in 1..Len(order) : ids[order[k]] = site})
                          ELSE 0
        IN  [ok |-> TRUE, Model |-> model_name, Score |-> score_col,
             AUC |-> RoundMilli(used, den), Flipped |-> flipped,
             score_used |-> s_used,
             Rank |-> [f \in Range(FOCUS_SITES) |-> rank(f)]]

\* ten times df['err_p95_m'].quantile(0.70) (linear interpolation), NaN on
\* an empty column
HIGH_ERROR_QUANTILE_TENTHS == 7

QuantileTimes10(values) ==
    LET v   == SortSeq(SelectSeq(values, LAMBDA x : x # NaN), LAMBDA a, b : a < b)
        n   == Len(v)
        pos == HIGH_ERROR_QUANTILE_TENTHS * (n - 1)
        lo  == pos \div 10 + 1
    IN  IF n = 0 THEN NaN
        ELSE IF pos % 10 = 0 THEN 10 * v[lo]
        ELSE 10 * v[lo] + (pos % 10) * (v[lo + 1] - v[lo])

\* lines 142-143: the frame with its high_error column
WithHighError(df) ==
    LET err == ColumnOf(df, "err_p95_m")
        thr == QuantileTimes10(err)
    IN  [cols |-> Append(df.cols, "high_error"),
         rows |-> [i \in 1..Len(df.rows) |->
                     Append(df.rows[i],
                            IF thr # NaN /\ err[i] # NaN /\ 10 * err[i] >= thr THEN 1 ELSE 0)]]

Targets ==
    << <<"risk_proxy_5m", "Phase2 (Combined)">>, <<"risk_horizon", "Phase2 (Horizon)">>,
       <<"overhead_score", "Phase2 (Overhead)">>, <<"hdop_cut_a_median", "Benchmark (HDOP)">> >>

Table(f) == [cols |-> f.cols, rows |-> f.rows]

\* lines 116-124: df_metrics after the optional DOP merge
MergeDop(df_metrics, dop) ==
    IF dop.exists /\ Contains(dop.cols, "hdop_cut_a_median")
    THEN LET hi == IndexOf(dop.cols, "hdop_cut_a_median")
             ki == IndexOf(dop.cols, "site_id")
             two == [cols |-> <<"site_id", "hdop_cut_a_median">>,
                     rows |-> [i \in 1..Len(dop.rows) |->
                                 <<dop.rows[i][ki], dop.rows[i][hi]>>]]
         IN  Merge(df_metrics, two, "site_id", "left")
    ELSE df_metrics

ColsToUseAll(risk_cols, metric_cols) == [i \in 1..Len(risk_cols) |-> i]

\* line 128: the indices of the df_risk columns taken
ColsToUse(risk_cols, metric_cols) ==
    SelectSeq([i \in 1..Len(risk_cols) |-> i],
              LAMBDA i : ~Contains(metric_cols, risk_cols[i]) \/ risk_cols[i] = "site_id")

\* lines 128-129: df_merged
MergeRisk(df_metrics, df_risk) ==
    LET use == ColsToUse(df_risk.cols, df_metrics.cols)
        sub == [cols |-> [k \in 1..Len(use) |-> df_risk.cols[use[k]]],
                rows |-> [i \in 1..Len(df_risk.rows) |->
                            [k \in 1..Len(use) |-> df_risk.rows[i][use[k]]]]]
    IN  Merge(df_metrics, sub, "site_id", "inner")

\* lines 156-162: the results and the skipped targets
EvalResults(df) ==
    LET all == [k \in 1..Len(Targets) |->
                   calculate_safety_metrics(df, "high_error", Targets[k][1], Targets[k][2])]
    IN  SelectSeq(all, LAMBDA r : r.ok)

EvalSkipped(df) ==
    {Targets[k][2] : k \in {j \in 1..Len(Targets) : ~Contains(df.cols, Targets[j][1])}}

\* __main__, lines 194-209: the baseline file read
BaselineInput == IF plan_a.exists THEN plan_a ELSE plan_b

\* __main__ and run_phase2_evaluation: one run of the script.  An exception
\* of run_phase2_evaluation is caught and printed by __main__.
run_phase2_evaluation ==
    /\ eval_runs < MaxEvalRuns
    /\ eval_runs' = eval_runs + 1
    /\ IF ~risk_csv.exists \/ ~BaselineInput.exists
       THEN /\ eval_result' = "raised"
            /\ results' = <<>> /\ skipped' = {}
            /\ UNCHANGED plan_b
       ELSE LET df_metrics == MergeDop(Table(BaselineInput), dop_csv)
                df_merged  == MergeRisk(df_metrics, Table(risk_csv))
                df_eval    == WithHighError(df_merged)
            IN  /\ plan_b' = [exists |-> TRUE, cols |-> df_merged.cols,
                              rows |-> df_merged.rows]
                /\ IF ~Contains(df_merged.cols, "err_p95_m")
                   THEN /\ eval_result' = "no_err_col"
                        /\ results' = <<>> /\ skipped' = {}
                   ELSE /\ results' = EvalResults(df_eval)
                        /\ skipped' = EvalSkipped(df_eval)
                        /\ eval_result' = IF EvalResults(df_eval) = <<>>
                                          THEN "no_results" ELSE "saved"
    /\ UNCHANGED <<plan_a, risk_csv, dop_csv>>
    /\ UNCHANGED notEval

\* calculate_safety_metrics applied to a frame
ApplySafetyMetrics ==
    /\ ~sm_done
    /\ sm_done' = TRUE
    /\ sm_res' = calculate_safety_metrics(sm_df, "high_error", "score", "Model")
    /\ UNCHANGED sm_df
    /\ UNCHANGED notSafety

\* ---- inputs
NoFile == [exists |-> FALSE, cols |-> <<>>, rows |-> <<>>]

ErrOf(site) == CASE site = "A06" -> 30 [] site = "A11" -> 20 [] OTHER -> 10

\* the values a file gives a site in one of its numeric columns: rising or
\* falling with the site's error
ValueOf(site, rising) == IF rising THEN ErrOf(site) \div 10 ELSE 4 - ErrOf(site) \div 10

IdLists == {<<"A06", "A11">>, <<"A11", "A06", "B01">>, <<"B01", "A06">>}

MetricFiles ==
    {[exists |-> TRUE, cols |-> <<"site_id", "err_p95_m">> \o extra,
      rows |-> [i \in 1..Len(ids) |->
                  <<ids[i], ErrOf(ids[i])>> \o [k \in 1..Len(extra) |-> 9]]] :
        ids \in IdLists,
        extra \in {<<>>, <<"hdop_cut_a_median", "hdop_cut_b_median">>, <<"risk_proxy_5m">>}}

RiskFiles ==
    {[exists |-> TRUE,
      cols |-> <<"site_id", "risk_proxy_5m", "risk_horizon", "overhead_score">>,
      rows |-> [i \in 1..Len(ids) |->
                  <<ids[i], ValueOf(ids[i], rising), ValueOf(ids[i], ~rising),
                    IF ids[i] = "A11" THEN 1 ELSE 0>>]] :
        ids \in IdLists, rising \in BOOLEAN}

DopFiles ==
    {[exists |-> TRUE, cols |-> <<"site_id", "hdop_cut_a_median", "valid_epochs">>,
      rows |-> [i \in 1..Len(ids) |-> <<ids[i], ValueOf(ids[i], TRUE), 5>>]] :
        ids \in {<<"A06", "A11">>, <<"A11", "A06", "B01">>}}
    \cup {[exists |-> TRUE, cols |-> <<"site_id", "valid_epochs">>,
           rows |-> << <<"A06", 5>> >>]}

EvalNotRun ==
    /\ eval_runs = 0
    /\ eval_result = "none"
    /\ results = <<>>
    /\ skipped = {}

EvalIdle ==
    /\ plan_a = NoFile /\ plan_b = NoFile /\ risk_csv = NoFile /\ dop_csv = NoFile
    /\ EvalNotRun

SafetyIdle ==
    /\ sm_df = [cols |-> <<>>, rows |-> <<>>]
    /\ sm_done = FALSE
    /\ sm_res = NoResult


HdopNotRun ==
    /\ hd_week3 = <<>>
    /\ hd_base = <<>>

HdopIdle == hd_status = <<>> /\ HdopNotRun

(***************************************************************************)
(* The two HDOP implementations side by side                                *)
(***************************************************************************)
CutMasks == <<5, 15>>

\* parse_and_simulate's simulation, lines 95-116, on the rows of one log
SimulateWeek3 ==
    /\ hd_week3 = <<>>
    /\ hd_week3' = [c \in 1..Len(CutMasks) |->
                      [vals |-> Week3EpochHdops(hd_status, CutMasks[c]),
                       stats |-> Week3Stats(hd_status, CutMasks[c]),
                       median2 |-> Week3Median2(hd_status, CutMasks[c])]]
    /\ UNCHANGED <<hd_status, hd_base>>
    /\ UNCHANGED notHdop

\* run_baseline_analysis's HDOP calculation, lines 149-159, on the same rows
BaselineHdop ==
    /\ hd_base = <<>>
    /\ hd_base' = [c \in 1..Len(CutMasks) |->
                     [vals |-> BaselineEpochVals(hd_status, CutMasks[c]),
                      stats |-> BaselineHdops(hd_status, CutMasks[c]),
                      median2 |-> BaselineMedian2(hd_status, CutMasks[c])]]
    /\ UNCHANGED <<hd_status, hd_week3>>
    /\ UNCHANGED notHdop

\* ---- inputs: Status rows around the two masks, on one or two azimuths, in
\* two epochs, and a row whose time is blank
StatusRowTypes ==
    << [t |-> 0, el |-> 4, az |-> 0, used |-> 1],  [t |-> 0, el |-> 5, az |-> 0, used |-> 1],
       [t |-> 0, el |-> 5, az |-> 90, used |-> 1], [t |-> 0, el |-> 15, az |-> 0, used |-> 1],
       [t |-> 0, el |-> 15, az |-> 90, used |-> 1], [t |-> 0, el |-> 15, az |-> 180, used |-> 1],
       [t |-> 1000, el |-> 15, az |-> 0, used |-> 1],
       [t |-> 1000, el |-> 15, az |-> 90, used |-> 1],
       [t |-> NaN, el |-> 15, az |-> 0, used |-> 1] >>

RECURSIVE SortedIdxSeqs(_, _)
\* the non-decreasing sequences over 1..m of length at most n
SortedIdxSeqs(n, m) ==
    IF n = 0 THEN {<<>>}
    ELSE LET prev == SortedIdxSeqs(n - 1, m)
         IN  prev \cup UNION {{<<i>> \o s : s \in {p \in prev : p = <<>> \/ p[1] >= i}} :
                                 i \in 1..m}

(***************************************************************************)
(* The interpolated quantile of 03_determine_thresholds.py and of           *)
(* 05_visualize_selection.py.  Both compute in Python floats: every         *)
(* operation returns the float nearest the exact result (ties to even).     *)
(* The model keeps that arithmetic with a shorter significand: a float is a *)
(* whole number of units of 2^-FRAC that has at most PREC significant bits. *)
(***************************************************************************)
PREC == 5           \* significant bits of a float of the model (a double has 53)
FRAC == 8           \* the unit is 2^-FRAC
ONE == 2 ^ FRAC     \* 1.0 in units

RoundHalfEven(n, d) ==
    LET q == n \div d
        r == n % d
    IN  IF 2 * r > d THEN q + 1
        ELSE IF 2 * r = d THEN q + (q % 2)
        ELSE q

RECURSIVE FloatExp(_, _, _)
\* the largest e' >= e with 2^e' <= num / den (e when there is none)
FloatExp(num, den, e) ==
    IF (2 ^ (e + 1)) * den <= num THEN FloatExp(num, den, e + 1) ELSE e

\* the float nearest num / den units (num >= 0, den > 0)
Fl(num, den) ==
    LET e == FloatExp(num, den, 0)
        q == IF e >= PREC THEN 2 ^ (e - PREC + 1) ELSE 1
    IN  RoundHalfEven(num, den * q) * q

\* the float literal 0.30, 0.50 or 0.70, from p in hundredths
FloatOfHundredths(p) == Fl(p * ONE, 100)

\* k = (n - 1) * p
QuantilePos(n, p) == Fl((n - 1) * FloatOfHundredths(p), 1)

\* 03_determine_thresholds.py, quantile(p), lines 50-61 (0 < p < 1):
\*   values[f] + (values[c] - values[f]) * (k - f)
\* `values` is 1-based here
quantile03(values, p) ==
    LET k == QuantilePos(Len(values), p)
        f == k \div ONE
        c == IF k % ONE = 0 THEN f ELSE f + 1
    IN  IF p <= 0 THEN values[1]
        ELSE IF p >= 100 THEN values[Len(values)]
        ELSE IF f = c THEN values[f + 1]
        ELSE Fl(values[f + 1]
                  + Fl(Fl(values[c + 1] - values[f + 1], 1) * Fl(k - f * ONE, 1), ONE),
                1)

\* 05_visualize_selection.py, quantile(p), lines 62-68:
\*   values[lo] * (hi - i) + values[hi] * (i - lo)
quantile05(values, p) ==
    LET i  == QuantilePos(Len(values), p)
        lo == i \div ONE
        hi == IF i % ONE = 0 THEN lo ELSE lo + 1
    IN  IF lo = hi THEN values[lo + 1]
        ELSE Fl(Fl(values[lo + 1] * Fl(hi * ONE - i, 1), ONE)
                  + Fl(values[hi + 1] * Fl(i - lo * ONE, 1), ONE),
                1)

NoQuantile == [raised |-> FALSE, q |-> 0]

\* analyze_raster_quantiles and classify_risk_based_on_quantiles on the same
\* raster: values.sort(), the RuntimeError on no valid pixel, quantile(p)
ApplyQuantiles ==
    /\ ~qt_done
    /\ qt_done' = TRUE
    /\ qt_03' = IF qt_values = <<>> THEN [raised |-> TRUE, q |-> 0]
                ELSE [raised |-> FALSE, q |-> quantile03(qt_values, qt_p)]
    /\ qt_05' = IF qt_values = <<>> THEN [raised |-> TRUE, q |-> 0]
                ELSE [raised |-> FALSE, q |-> quantile05(qt_values, qt_p)]
    /\ UNCHANGED <<qt_values, qt_p>>
    /\ UNCHANGED notQuant

\* the p the two scripts call quantile with, in hundredths
QuantileLevels == {30, 50, 70}

\* pixel values 0.125, 0.25, 0.375 and 3.0, in increasing order
PixelPool == <<ONE \div 8, ONE \div 4, (3 * ONE) \div 8, 3 * ONE>>

\* ---- risk_max_score applied to the obstacles around one point
ApplyRiskMaxScore ==
    /\ ~rm_done
    /\ rm_done' = TRUE
    /\ rm_score' = risk_max_score(rm_obstacles, SEARCH_RADIUS_DM)
    /\ UNCHANGED rm_obstacles
    /\ UNCHANGED notScore

\* heights: attribute missing, 11.5 m, exactly the calculation height, 1.0 m;
\* distances: touching the point, 10 m, on the buffer's edge, outside it
ObstaclePool == [dist : {0, 100, 500, 600}, h : {NaN, 115, 15, 10}]

ScoreIdle == rm_obstacles = <<>> /\ rm_done = FALSE /\ rm_score = 0

QuantIdle ==
    /\ qt_values = <<>> /\ qt_p = 0 /\ qt_done = FALSE
    /\ qt_03 = NoQuantile /\ qt_05 = NoQuantile

BaseIdle ==
    /\ clock = 0
    /\ nruns = 0
    /\ run_dirs = [t \in 0..MaxClock |-> EmptyDir]
    /\ latest = EmptyDir
    /\ qc_fails = <<>>
    /\ site_metrics = <<>>
    /\ logs_seen = <<>>
    /\ qc_params = <<0, 0>>
    /\ returned = "init"


ParserNotRun ==
    /\ no_raw_header = FALSE
    /\ parser_result = "none"
    /\ out_lines = <<>>
    /\ sim_done = FALSE
    /\ header_map = NoMap
    /\ sim_rows = <<>>
    /\ dop_result = [hdop_cut_a_median |-> NaN, hdop_cut_b_median |-> NaN,
                     valid_epochs |-> 0]

ParserIdle == src_lines = <<>> /\ ParserNotRun

\* ---- the output tree over several runs (default QC parameters scaled down)
RunTree ==
    \E log_files \in SeqsUpTo(TreeLogPool, MaxLogs), site_def \in SiteDefs :
        run_baseline_analysis(log_files, site_def, 1, 1)

InitTree == BaseIdle /\ ParserIdle /\ RiskIdle /\ EvalIdle /\ SafetyIdle /\ HdopIdle
            /\ ScoreIdle /\ QuantIdle
NextTree == RunTree \/ Tick
SpecTree == InitTree /\ [][NextTree]_vars

\* ---- the QC loop of one run (the first into output_dir) over every list of
\* logs of the pool
RunQc ==
    /\ nruns = 0
    /\ \E log_files \in SeqsUpTo(LogPool, MaxLogs), site_def \in {sd \in SiteDefs : Len(sd.cols) = 2},
          qe \in {1, 2}, qd \in {0, 1, 2} :
           run_baseline_analysis(log_files, site_def, qe, qd)

InitQc == BaseIdle /\ ParserIdle /\ RiskIdle /\ EvalIdle /\ SafetyIdle /\ HdopIdle
          /\ ScoreIdle /\ QuantIdle
NextQc == RunQc
SpecQc == InitQc /\ [][NextQc]_vars

\* ---- gnss_parser.py, then week3_dop_sim.py, on every file of the pool
MaxLines == 3       \* lines of the input file

InitParser ==
    /\ BaseIdle /\ RiskIdle /\ EvalIdle /\ SafetyIdle /\ HdopIdle
    /\ ScoreIdle /\ QuantIdle
    /\ ParserNotRun
    /\ src_lines \in SeqsUpTo(LinePool, MaxLines)
NextParser == Normalize \/ parse_and_simulate
SpecParser == InitParser /\ [][NextParser]_vars

\* ---- stage 01, then the Phase 2 risk calculation, on every arrangement of
\* the input files
MaxSites == 2       \* sites in site_definitions.csv

InitRisk ==
    /\ BaseIdle /\ ParserIdle /\ EvalIdle /\ SafetyIdle /\ HdopIdle
    /\ ScoreIdle /\ QuantIdle
    /\ raw_files \in SUBSET RawNames
    /\ processed_files \in SUBSET Phase2Names
    /\ sites_in \in SeqsUpTo(SitePool, MaxSites)
    /\ RiskNotRun
NextRisk == run_rasterization \/ calculate_phase2_risk
SpecRisk == InitRisk /\ [][NextRisk]_vars

\* ---- the evaluation script on every arrangement of its input files
InitEval ==
    /\ BaseIdle /\ ParserIdle /\ RiskIdle /\ SafetyIdle /\ HdopIdle
    /\ ScoreIdle /\ QuantIdle
    /\ plan_a \in MetricFiles \cup {NoFile}
    /\ plan_b \in {NoFile} \cup {f \in MetricFiles : Len(f.rows) = 2 /\ Len(f.cols) = 2}
    /\ risk_csv \in RiskFiles \cup {NoFile}
    /\ dop_csv \in DopFiles \cup {NoFile}
    /\ EvalNotRun
NextEval == run_phase2_evaluation
SpecEval == InitEval /\ [][NextEval]_vars

\* ---- calculate_safety_metrics on every small frame
MaxRows == 4        \* rows of the frame

\* (err_p95_m, score) of a row
ErrAndScore == {<<10, NaN>>, <<10, 1>>, <<10, 2>>, <<NaN, 1>>}

SafetySite(i) == CASE i = 1 -> "A11" [] i = 2 -> "A06" [] OTHER -> "B01"

InitSafety ==
    /\ BaseIdle /\ ParserIdle /\ RiskIdle /\ EvalIdle /\ HdopIdle
    /\ ScoreIdle /\ QuantIdle
    /\ \E n \in 0..MaxRows : \E ys \in [1..n -> {0, 1}], es \in [1..n -> ErrAndScore] :
          sm_df = [cols |-> <<"site_id", "err_p95_m", "high_error", "score">>,
                   rows |-> [i \in 1..n |-> <<SafetySite(i), es[i][1], ys[i], es[i][2]>>]]
    /\ sm_done = FALSE
    /\ sm_res = NoResult
NextSafety == ApplySafetyMetrics
SpecSafety == InitSafety /\ [][NextSafety]_vars

\* ---- both HDOP implementations on every small list of Status rows
MaxStatus == 5      \* Status rows of the log

InitHdop ==
    /\ BaseIdle /\ ParserIdle /\ RiskIdle /\ EvalIdle /\ SafetyIdle
    /\ ScoreIdle /\ QuantIdle
    /\ \E idx \in SortedIdxSeqs(MaxStatus, Len(StatusRowTypes)) :
          hd_status = [k \in 1..Len(idx) |-> StatusRowTypes[idx[k]]]
    /\ HdopNotRun
NextHdop == SimulateWeek3 \/ BaselineHdop
SpecHdop == InitHdop /\ [][NextHdop]_vars

\* ---- risk_max_score on every short list of obstacles
MaxObstacles == 3   \* obstacles around the point

InitScore ==
    /\ BaseIdle /\ ParserIdle /\ RiskIdle /\ EvalIdle /\ SafetyIdle /\ HdopIdle
    /\ QuantIdle
    /\ rm_obstacles \in SeqsUpTo(ObstaclePool, MaxObstacles)
    /\ rm_done = FALSE
    /\ rm_score = 0
NextScore == ApplyRiskMaxScore
SpecScore == InitScore /\ [][NextScore]_vars

\* ---- both quantile functions on every small sorted list of pixel values
MaxPixels == 3      \* valid pixels of the raster

InitQuant ==
    /\ BaseIdle /\ ParserIdle /\ RiskIdle /\ EvalIdle /\ SafetyIdle /\ HdopIdle
    /\ ScoreIdle
    /\ \E idx \in SortedIdxSeqs(MaxPixels, Len(PixelPool)) :
          qt_values = [k \in 1..Len(idx) |-> PixelPool[idx[k]]]
    /\ qt_p \in QuantileLevels
    /\ qt_done = FALSE
    /\ qt_03 = NoQuantile /\ qt_05 = NoQuantile
NextQuant == ApplyQuantiles
SpecQuant == InitQuant /\ [][NextQuant]_vars

(***************************************************************************)
(* Properties                                                               *)
(***************************************************************************)

\* C1: when a run of run_baseline_analysis has returned, every file present
\* in latest/ (and latest/plots/) was written by that run.
C1_LatestHoldsOnlyThisRun ==
    returned # "init" => \A n \in AllNames : latest[n] # 0 => latest[n] = nruns

\* C2: whenever the run that just returned wrote final_dataset.csv into its
\* run directory, latest/final_dataset.csv exists with that content.
C2_FinalDatasetReachesLatest ==
    (returned # "init" /\ \E t \in DOMAIN run_dirs : run_dirs[t]["final_dataset.csv"] = nruns)
        => latest["final_dataset.csv"] = nruns

\* ---- C3
StatusHeaderInserted ==
    parser_result = "written" /\ NeedHeader(src_lines, "Status", no_raw_header)

\* the Status data rows of the input whose elevation and azimuth, read at the
\* positions the inserted header names, are numbers
UsableStatusRows ==
    SelectSeq(src_lines, LAMBDA ln :
        /\ StartsWithPrefix(ln, "Status")
        /\ Len(ln) = Len(STATUS_COLS_14)
        /\ IsFloat(ln[IndexOf(STATUS_COLS_14, "ElevationDegrees")])
        /\ IsFloat(ln[IndexOf(STATUS_COLS_14, "AzimuthDegrees")]))

\* C3: when gnss_parser inserted a Status header, parse_and_simulate takes
\* that line as the header (header_map holds UnixTimeMillis, ElevationDegrees
\* and AzimuthDegrees at the inserted header's positions) and groups the
\* Status data rows into epochs instead of skipping them.
C3_InsertedStatusHeaderRecognised ==
    (sim_done /\ StatusHeaderInserted) =>
        /\ {"UnixTimeMillis", "ElevationDegrees", "AzimuthDegrees"} \subseteq DOMAIN header_map
        /\ \A c \in {"UnixTimeMillis", "ElevationDegrees", "AzimuthDegrees"} :
              header_map[c] = IndexOf(STATUS_COLS_14, c) - 1
        /\ Len(sim_rows) = Len(UsableStatusRows)

\* ---- C6
BridgeDataMissing ==
    "plateau_brid.gpkg" \notin raw_files /\ "brid_aoi.gpkg" \notin processed_files

\* C6: with the bridge data missing (stage 01 announces that the overhead
\* judgement is skipped with risk 0) and the other inputs present,
\* calculate_phase2_risk does not fail and gives every site overhead_flag = 0
\* and overhead_score = 0.0.
C6_MissingBridgeMeansNoOverhead ==
    (risk_result # "none" /\ BridgeDataMissing /\ ~Phase2InputsMissingIgnoringBridge) =>
        /\ risk_result = "saved"
        /\ Len(sites_risk) = Len(sites_in)
        /\ \A i \in 1..Len(sites_risk) :
              sites_risk[i].overhead_flag = 0 /\ sites_risk[i].overhead_score = 0

\* ---- C4
NeededHeaders == {ty \in Range(RecTypes) : NeedHeader(src_lines, ty, no_raw_header)}

IsFirstOfType(lines, i, ty) ==
    /\ StartsWithPrefix(lines[i], ty)
    /\ \A j \in 1..(i - 1) : ~StartsWithPrefix(lines[j], ty)

RECURSIVE WithHeaders(_, _, _)
\* lines i.. of `lines`, each first line of a type of `need` preceded by that
\* type's header
WithHeaders(lines, need, i) ==
    IF i > Len(lines) THEN <<>>
    ELSE (IF \E ty \in need : IsFirstOfType(lines, i, ty)
          THEN << HeaderOf(CHOOSE ty \in need : IsFirstOfType(lines, i, ty)) >>
          ELSE <<>>)
         \o << lines[i] >> \o WithHeaders(lines, need, i + 1)

OutputAsClaimed ==
    /\ out_lines = WithHeaders(src_lines, NeededHeaders, 1)
    /\ Len(out_lines) = Len(src_lines) + Cardinality(NeededHeaders)
    /\ (NeededHeaders = {} => out_lines = src_lines)

\* C4 (as stated): once main has handled the file, the output holds the input
\* lines in order, with exactly one header before the first line of each type
\* whose header was judged missing.
C4_HeadersInsertedAlways ==
    parser_result # "none" => (parser_result = "written" /\ OutputAsClaimed)

\* C4 (amended): the same, for every file main writes, that is whenever the
\* first line of each type judged to lack a header has that header's column
\* count; otherwise main raises RuntimeError and writes nothing for the file.
C4_HeadersInsertedWhenWritten ==
    /\ parser_result = "written" => OutputAsClaimed
    /\ parser_result = "raised" <=> (parser_result # "none"
                                     /\ SanityRaises(src_lines, no_raw_header))

C4_Witness ==
    /\ parser_result = "written"
    /\ Cardinality(NeededHeaders) >= 2
    /\ \E i \in 2..Len(src_lines) : \E ty \in NeededHeaders : IsFirstOfType(src_lines, i, ty)

\* ---- C5
PassesQc(log) ==
    /\ log.fix_header /\ log.status_header /\ log.cols_ok
    /\ Len(log.fix) >= qc_params[1]
    /\ "UnixTimeMillis" \in log.fix_cols /\ DurationMs(log.fix) >= 1000 * qc_params[2]
    /\ "UsedInFix" \in log.status_cols /\ \E i \in 1..Len(log.status) : log.status[i].used = 1

FirstFailingCheck(log) ==
    IF ~(log.fix_header /\ log.status_header /\ log.cols_ok) THEN "Parse Error"
    ELSE IF ~(Len(log.fix) >= qc_params[1]) THEN "Low Epochs"
    ELSE IF ~("UnixTimeMillis" \in log.fix_cols /\ DurationMs(log.fix) >= 1000 * qc_params[2])
    THEN "Short Duration"
    ELSE "No Used Satellites"

\* C5: a log yields a site_metrics row iff it parsed, has n_fix >=
\* qc_min_epochs, duration >= qc_min_duration and a Status row with UsedInFix
\* = 1; otherwise it yields one qc_fails row whose reason is the first failing
\* check in the order Parse Error, Low Epochs, Short Duration, No Used
\* Satellites.
C5_QcPartition ==
    returned # "init" =>
        LET pass == SelectSeq(logs_seen, PassesQc)
            fail == SelectSeq(logs_seen, LAMBDA l : ~PassesQc(l))
        IN  /\ [i \in 1..Len(site_metrics) |-> site_metrics[i].site_id]
                = [i \in 1..Len(pass) |-> pass[i].site]
            /\ [i \in 1..Len(qc_fails) |-> <<qc_fails[i].site_id, qc_fails[i].reason>>]
                = [i \in 1..Len(fail) |-> <<fail[i].site, FirstFailingCheck(fail[i])>>]

\* ---- C7
\* C7: when the DOP results file exists and has hdop_cut_a_median, the merged
\* dataset has a column named hdop_cut_a_median and the 'Benchmark (HDOP)'
\* target is not skipped as 'column not found', whatever columns the baseline
\* metrics file has.
C7_HdopBenchmarkEvaluated ==
    (eval_result \in {"saved", "no_results"}
     /\ dop_csv.exists /\ Contains(dop_csv.cols, "hdop_cut_a_median")) =>
        /\ Contains(plan_b.cols, "hdop_cut_a_median")
        /\ "Benchmark (HDOP)" \notin skipped

\* ---- C8
RowIds(df) == Range(ColumnOf(df, "site_id"))

\* df_merged is metrics joined with the risk columns it lacks: no column name
\* twice, the metrics columns first and with the metrics values, then the
\* risk columns absent from metrics, and the rows of the site_ids both have
MergedAsClaimed(metrics, risk, merged) ==
    LET new  == SelectSeq(risk.cols, LAMBDA c : ~Contains(metrics.cols, c))
        kept == SelectSeq(metrics.rows, LAMBDA r :
                    r[IndexOf(metrics.cols, "site_id")] \in RowIds(risk))
    IN  /\ Cardinality(Range(merged.cols)) = Len(merged.cols)
        /\ merged.cols = metrics.cols \o new
        /\ [i \in 1..Len(merged.rows) |-> SubSeq(merged.rows[i], 1, Len(metrics.cols))] = kept
        /\ \A i \in 1..Len(merged.rows) : \A k \in 1..Len(new) :
              \E r \in Range(risk.rows) :
                  /\ r[IndexOf(risk.cols, "site_id")] = merged.rows[i][IndexOf(metrics.cols, "site_id")]
                  /\ r[IndexOf(risk.cols, new[k])] = merged.rows[i][Len(metrics.cols) + k]
        /\ RowIds(merged) = RowIds(metrics) \cap RowIds(risk)

\* C8: the merge of the (DOP-merged) baseline metrics with the risk table
\* duplicates no column, takes only the risk columns the metrics table lacks,
\* keeps the metrics values of every metrics column, and keeps exactly the
\* site_ids present in both tables.
C8_RiskMergeAddsOnlyNewColumns ==
    [][(eval_runs' = eval_runs + 1 /\ eval_result' # "raised") =>
          MergedAsClaimed(MergeDop(Table(BaselineInput), dop_csv), Table(risk_csv),
                          Table(plan_b'))]_vars

C8_Witness ==
    /\ eval_runs = 1 /\ eval_result = "saved"
    /\ plan_a.exists /\ Contains(plan_a.cols, "risk_proxy_5m")
    /\ RowIds(Table(plan_a)) # RowIds(Table(risk_csv))
    /\ Len(plan_b.rows) = 2
    /\ Contains(plan_b.cols, "risk_horizon")

\* ---- C9
SmTemp == SelectSeq(sm_df.rows, LAMBDA r : r[2] # NaN /\ r[3] # NaN /\ r[4] # NaN)
SmY == [i \in 1..Len(SmTemp) |-> SmTemp[i][3]]
SmS == [i \in 1..Len(SmTemp) |-> SmTemp[i][4]]
SmRawNum == AucNum(SmY, SmS)
SmDen == AucDen(SmY)
SmMaxNum == IF SmRawNum >= SmDen - SmRawNum THEN SmRawNum ELSE SmDen - SmRawNum

\* Flipped iff raw AUC < 0.5, and the ranking sorts on the negated score iff
\* Flipped: a focus site's rank follows the rows with a larger score used
FlipAsClaimed ==
    /\ sm_res.Flipped <=> (2 * SmRawNum < SmDen)
    /\ sm_res.score_used = [i \in 1..Len(SmS) |-> IF sm_res.Flipped THEN 0 - SmS[i] ELSE SmS[i]]
    /\ \A i \in 1..Len(SmTemp) :
          SmTemp[i][1] \in Range(FOCUS_SITES) =>
              LET above == {j \in 1..Len(SmTemp) : sm_res.score_used[j] > sm_res.score_used[i]}
                  tied  == {j \in 1..Len(SmTemp) : sm_res.score_used[j] = sm_res.score_used[i]}
              IN  /\ sm_res.Rank[SmTemp[i][1]] > Cardinality(above)
                  /\ sm_res.Rank[SmTemp[i][1]] <= Cardinality(above) + Cardinality(tied)

\* C9 (as stated): Flipped iff raw AUC < 0.5, the reported AUC equals
\* max(raw, 1 - raw) and is never below 0.5, and the ranking uses the negated
\* score iff Flipped.
C9_ReportedAucIsMaxOfRaw ==
    (sm_done /\ sm_res.ok) =>
        /\ FlipAsClaimed
        /\ sm_res.AUC * SmDen = 1000 * SmMaxNum
        /\ sm_res.AUC >= 500

\* C9 (amended): the same, the reported AUC being max(raw, 1 - raw) rounded
\* to three decimals (the nearest thousandth), which is never below 0.5.
C9_ReportedAucIsRoundedMaxOfRaw ==
    (sm_done /\ sm_res.ok) =>
        /\ FlipAsClaimed
        /\ 2 * (sm_res.AUC * SmDen - 1000 * SmMaxNum) <= SmDen
        /\ 2 * (1000 * SmMaxNum - sm_res.AUC * SmDen) <= SmDen
        /\ sm_res.AUC >= 500 /\ sm_res.AUC <= 1000

C9_Witness ==
    /\ sm_done /\ sm_res.ok /\ sm_res.Flipped
    /\ sm_res.AUC * SmDen # 1000 * SmMaxNum
    /\ sm_res.Rank["A11"] = 1 /\ sm_res.Rank["A06"] > 1

\* ---- C10
\* the epochs of hd_status with at least 4 rows at or above the mask
EpochsWithFour(min_el) ==
    {t \in {hd_status[i].t : i \in 1..Len(hd_status)} :
        Cardinality({i \in 1..Len(hd_status) :
                        hd_status[i].t = t /\ hd_status[i].el >= min_el}) >= 4}

CutAsClaimed(res, min_el) ==
    /\ \A k \in 1..Len(res.vals) :
          res.vals[k].t \notin EpochsWithFour(min_el) => res.vals[k].hdop = NaN
    /\ Len(res.stats) <= Cardinality(EpochsWithFour(min_el))
    /\ \A k \in 1..Len(res.stats) :
          /\ res.stats[k] # NaN
          /\ \E j \in 1..Len(res.vals) :
                res.vals[j].hdop = res.stats[k] /\ res.vals[j].t \in EpochsWithFour(min_el)
    /\ (res.stats = <<>> => res.median2 = NaN)
    /\ (res.stats # <<>> => res.median2 # NaN)

\* C10: in both implementations an epoch contributes an HDOP value to a cut's
\* median only if at least 4 of its satellites are at or above the cut's mask
\* (5 degrees for Cut-A, 15 for Cut-B); with fewer the value is NaN and is
\* left out, and with no contributing epoch the median is NaN.
C10_FourSatellitesPerEpoch ==
    /\ hd_week3 # <<>> => \A c \in 1..Len(CutMasks) : CutAsClaimed(hd_week3[c], CutMasks[c])
    /\ hd_base # <<>> => \A c \in 1..Len(CutMasks) : CutAsClaimed(hd_base[c], CutMasks[c])

C10_Witness ==
    /\ hd_week3 # <<>> /\ hd_base # <<>>
    /\ Len(hd_week3[1].stats) = 1 /\ hd_week3[2].stats = <<>>
    /\ Len(hd_week3[2].vals) = 2
    /\ Len(hd_base[1].stats) = 1 /\ hd_base[2].median2 = NaN
    /\ hd_base[1].median2 # NaN

\* ---- C11
\* the obstacles of rm_obstacles that intersect the radius buffer
RmNearby == SelectSeq(rm_obstacles, LAMBDA ob : ob.dist <= SEARCH_RADIUS_DM)

\* those with a height attribute at or below the 1.5 m calculation height
RmLow == {i \in 1..Len(RmNearby) : RmNearby[i].h # NaN /\ RmNearby[i].h <= CALC_HEIGHT_DM}

\* C11: risk_max_score returns the maximum of angle_score * dist_score over
\* the obstacles intersecting the radius buffer whose height is above the
\* 1.5 m calculation height (0 when there is none); the result is in [0, 1]
\* and is 0 when no obstacle intersects the buffer.
C11_RiskIsMaxObstacleScore ==
    rm_done =>
        /\ rm_score >= 0 /\ rm_score <= 1000
        /\ (RmNearby = <<>> => rm_score = 0)
        /\ rm_score = MaxOf({0} \cup {ObjScore(RmNearby[i]) :
                                        i \in (1..Len(RmNearby)) \ RmLow})
        /\ (RmLow = 1..Len(RmNearby) => rm_score = 0)

C11_Witness ==
    /\ rm_done /\ rm_score > 0
    /\ Len(RmNearby) = 2 /\ Len(rm_obstacles) = 3
    /\ RmLow = {}
    /\ ObjScore(RmNearby[1]) > ObjScore(RmNearby[2])

\* ---- C12
\* C12: for the same sorted values and the same p the quantile of stage 03
\* and the quantile of stage 05 are the same value, which lies between the
\* minimum and the maximum value and does not decrease as p grows.
C12_QuantilesAgree ==
    (qt_done /\ qt_values # <<>>) =>
        /\ qt_03.q = qt_05.q
        /\ \A r \in {qt_03.q, qt_05.q} :
              qt_values[1] <= r /\ r <= qt_values[Len(qt_values)]
        /\ \A p \in QuantileLevels :
              p <= qt_p => /\ quantile03(qt_values, p) <= qt_03.q
                           /\ quantile05(qt_values, p) <= qt_05.q

\* ---- C13
\* C13: a run whose baseline input is the Plan B file that the previous run
\* wrote (Plan A absent), with the risk and DOP files unchanged, leaves the
\* column set and the rows of final_dataset.csv as they were.
C13_RerunIsFixedPoint ==
    [][(/\ eval_runs >= 1 /\ eval_result \in {"saved", "no_results", "no_err_col"}
        /\ ~plan_a.exists
        /\ eval_runs' = eval_runs + 1
        /\ risk_csv' = risk_csv /\ dop_csv' = dop_csv)
          => /\ eval_result' # "raised"
             /\ Range(plan_b'.cols) = Range(plan_b.cols)
             /\ plan_b'.rows = plan_b.rows]_vars

====
